---- MODULE Spec2Model ----
(***************************************************************************)
(* A model of kgx/utils/kgx_utils.py: property-record merging              *)
(* (prepare_data_dict), graph filtering (apply_node_filters,               *)
(* apply_edge_filters), the process-wide singletons (get_toolkit,          *)
(* get_cache), CURIE contraction and expansion (contract, expand) and the  *)
(* CURIE shape test (is_curie).                                            *)
(*                                                                         *)
(* Python values are records [kind, items]: a scalar holds one atom, a     *)
(* list / set / tuple holds its elements in iteration order.  Absent       *)
(* stands for "key not in the dict".                                       *)
(***************************************************************************)
EXTENDS Integers, Sequences, FiniteSets, TLC

VARIABLES
    d1,          \* the dict object passed as d1 (its current contents)
    d2,          \* the dict object passed as d2: a sequence of [key, val] in insertion order
    preserve,    \* the preserve flag
    new_data,    \* the record returned by the last call
    shared,      \* keys whose returned value is the very object d1 holds (lines 476, 503, 531)
    status,      \* "idle" | "returned" | "TypeError" | "AttributeError"
    d1_before,   \* contents of d1 when the last call started
    first_data,  \* the record returned by the first call
    calls        \* number of calls made so far

mergeVars == <<d1, d2, preserve, new_data, shared, status, d1_before, first_data, calls>>

VARIABLES
    g_nodes,          \* graph.nodes(): the node ids, in iteration order
    node_data,        \* node id -> the node's 'biolink:category' value
    g_edges,          \* graph.edges(keys=True, data=True), in iteration order
    node_filters,     \* the node_filters argument
    edge_filters,     \* the edge_filters argument
    fpc,              \* "ready" | "scan" | "remove" | "done" | "KeyError"
    todo,             \* the nodes / edges the scanning loop has yet to examine
    to_remove,        \* nodes_to_remove / edges_to_remove
    g_nodes0,         \* the nodes when the call started
    g_edges0          \* the edges when the call started

filterVars ==
    <<g_nodes, node_data, g_edges, node_filters, edge_filters, fpc, todo,
      to_remove, g_nodes0, g_edges0>>

VARIABLES
    toolkit,          \* the module global `toolkit` (NoToolkit: None)
    constructed,      \* how many times Toolkit(...) has been constructed
    tk_log,           \* the get_toolkit calls so far: [schema, ret]
    cache,            \* the module global `cache` (NoCache: None)
    first_maxsize,    \* the maxsize of the first get_cache call (0: none yet)
    sc_active,        \* the last get_cache call was get_cache(ReqSize), only inserts since
    sc_first,         \* ... and that call was the one that created the cache
    sc_inserted,      \* the distinct keys inserted since that call, in order
    sc_evicted        \* the keys evicted since that call, in order

toolkitVars == <<toolkit, constructed, tk_log>>

cacheVars == <<cache, first_maxsize, sc_active, sc_first, sc_inserted, sc_evicted>>

VARIABLES
    cu_pc,            \* "ready" | "contract" | "expand": which function has been applied
    cu_arg,           \* the uri / curie argument, a string
    cu_maps,          \* the prefix_maps argument (None, or a list of dicts)
    cu_fallback,      \* the fallback argument
    cu_ret,           \* the string returned
    cu_default,       \* whether the default maps were used to resolve the argument
    ic_pc,            \* "ready" | "done": whether is_curie has been applied
    ic_s,             \* the argument of is_curie
    ic_ret            \* its result

curieVars ==
    <<cu_pc, cu_arg, cu_maps, cu_fallback, cu_ret, cu_default, ic_pc, ic_s, ic_ret>>

(***************************************************************************)
(* Bounds of the model                                                     *)
(***************************************************************************)
MaxLen    == 2    \* longest list / set / tuple in an input record
MaxD1Keys == 1    \* most keys of d1
MaxD2Keys == 1    \* most keys of d2
MaxCalls  == 2    \* calls of prepare_data_dict in one behaviour

Atoms == {"X", "Y"}

(***************************************************************************)
(* Module-level tables                                                     *)
(***************************************************************************)
is_property_multivalued ==
    [k \in {"biolink:id", "biolink:subject", "biolink:object", "biolink:predicate",
            "biolink:description", "biolink:synonym", "biolink:in_taxon",
            "biolink:same_as", "biolink:name", "biolink:has_evidence",
            "biolink:provided_by", "biolink:category", "biolink:publications",
            "biolink:type", "biolink:relation"} |->
        k \in {"biolink:synonym", "biolink:same_as", "biolink:provided_by",
               "biolink:category", "biolink:publications"}]

CORE_NODE_PROPERTIES == {"biolink:id", "biolink:name"}

CORE_EDGE_PROPERTIES ==
    {"biolink:id", "biolink:subject", "biolink:predicate", "biolink:object",
     "biolink:relation"}

\* The property names the inputs are drawn from: a core identity property, a
\* declared-multivalued one, a declared-single-valued one, and one the table
\* does not know.
Keys == {"biolink:id", "biolink:category", "biolink:description", "foo"}

(***************************************************************************)
(* Python values                                                           *)
(***************************************************************************)
Absent == [kind |-> "absent", items |-> <<>>]

Scalar(a) == [kind |-> "scalar", items |-> <<a>>]

ListOf(s) == [kind |-> "list", items |-> s]

SeqsUpTo(n) == UNION {[1..m -> Atoms] : m \in 0..n}

NoDup(s) == \A i, j \in 1..Len(s) : i # j => s[i] # s[j]

\* Every value an input record may hold for a key.
Values ==
    {Scalar(a) : a \in Atoms}
    \cup {[kind |-> k, items |-> s] : k \in {"list", "tuple"}, s \in SeqsUpTo(MaxLen)}
    \cup {[kind |-> "set", items |-> s] : s \in {t \in SeqsUpTo(MaxLen) : NoDup(t)}}

\* isinstance(v, (list, set, tuple))
IsSeq(v) == v.kind \in {"list", "set", "tuple"}

\* x in v, for a list, set or tuple v
Contains(v, x) == \E i \in 1..Len(v.items) : v.items[i] = x

\* lines 464-467: a list / set / tuple becomes a fresh list, a scalar stays
NewValue(value) == IF IsSeq(value) THEN ListOf(value.items) ELSE value

(***************************************************************************)
(* prepare_data_dict                                                       *)
(***************************************************************************)
Outcome(exc, val) == [exc |-> exc, val |-> val]

\* c += items: a list is extended in place; a tuple or a set cannot take a list
IAdd(c, items) ==
    IF c.kind = "list" THEN Outcome("none", ListOf(c.items \o items))
    ELSE Outcome("TypeError", c)

\* c.append(x): only a list has append
AppendTo(c, x) ==
    IF c.kind = "list" THEN Outcome("none", ListOf(Append(c.items, x)))
    ELSE Outcome("AttributeError", c)

\* [x for x in new_value if x not in c]: the comprehension is evaluated against
\* c as it is before the += takes place
NotIn(new_value, c) == SelectSeq(new_value.items, LAMBDA x : ~Contains(c, x))

\* The extension of new_data[key] (= c) by new_value, as the branches write it:
\*   filtered: the list branch keeps only the x not in c (478, 489, 515, 533, 541)
\*             or takes every x (505);
\*   checked:  the scalar branch appends only if new_value not in c (480, 491)
\*             or appends always (507, 517, 535, 543).
Extend(c, new_value, filtered, checked) ==
    IF IsSeq(new_value)
    THEN IAdd(c, IF filtered THEN NotIn(new_value, c) ELSE new_value.items)
    ELSE IF checked /\ Contains(c, new_value.items[1])
         THEN Outcome("none", c)
         ELSE AppendTo(c, new_value.items[1])

\* What one iteration of the loop over d2.items() does for `key`:
\*   exc     the exception raised ("none" if none),
\*   val     new_data[key] afterwards (Absent: not assigned),
\*   alias   new_data[key] is the object d1[key] (new_data[key] = d1[key]),
\*   d1v     d1[key] afterwards.
Aliased(o) == [exc |-> o.exc, val |-> o.val, alias |-> TRUE, d1v |-> o.val]

Fresh(e1, o) == [exc |-> o.exc, val |-> o.val, alias |-> FALSE, d1v |-> e1]

\* log.debug("cannot modify core property ..."): nothing is assigned
Skipped(e1) == [exc |-> "none", val |-> Absent, alias |-> FALSE, d1v |-> e1]

IsCore(key) == key \in CORE_NODE_PROPERTIES \/ key \in CORE_EDGE_PROPERTIES

\* lines 470-498: the key is declared multivalued
MergeMultivalued(key, e1, new_value) ==
    IF e1 # Absent
    THEN IF IsSeq(e1)
         THEN Aliased(Extend(e1, new_value, TRUE, TRUE))
         ELSE IF IsCore(key)
              THEN Skipped(e1)
              ELSE Fresh(e1, Extend(ListOf(e1.items), new_value, TRUE, TRUE))
    ELSE IF IsSeq(new_value)
         THEN Fresh(e1, Outcome("none", ListOf(new_value.items)))
         ELSE Fresh(e1, Outcome("none", ListOf(new_value.items)))

\* lines 499-521: the key is declared single-valued
MergeSinglevalued(key, e1, new_value, p) ==
    IF e1 # Absent
    THEN IF IsSeq(e1)
         THEN Aliased(Extend(e1, new_value, FALSE, FALSE))
         ELSE IF IsCore(key)
              THEN Skipped(e1)
              ELSE IF p
                   THEN Fresh(e1, Extend(ListOf(e1.items), new_value, TRUE, FALSE))
                   ELSE Fresh(e1, Outcome("none", new_value))
    ELSE Fresh(e1, Outcome("none", new_value))

\* lines 522-547: the key is not in is_property_multivalued
MergeUnknown(key, e1, new_value, p) ==
    IF e1 # Absent
    THEN IF IsCore(key)
         THEN Skipped(e1)
         ELSE IF IsSeq(e1)
              THEN Aliased(Extend(e1, new_value, TRUE, FALSE))
              ELSE IF p
                   THEN Fresh(e1, Extend(ListOf(e1.items), new_value, TRUE, FALSE))
                   ELSE Fresh(e1, Outcome("none", new_value))
    ELSE Fresh(e1, Outcome("none", new_value))

\* lines 464-547: the body of the loop for one (key, value) of d2
MergeKey(key, e1, value, p) ==
    LET new_value == NewValue(value)
    IN  IF key \in DOMAIN is_property_multivalued
        THEN IF is_property_multivalued[key]
             THEN MergeMultivalued(key, e1, new_value)
             ELSE MergeSinglevalued(key, e1, new_value, p)
        ELSE MergeUnknown(key, e1, new_value, p)

Empty == [k \in Keys |-> Absent]

\* lines 463-547: the loop over d2.items() from its i-th entry on; st is
\* [exc, nd (new_data), d1 (the d1 object), sh (keys aliased to d1's object)].
\* An exception leaves the loop with d1 as the earlier iterations left it.
RECURSIVE Loop(_, _, _, _)
Loop(i, items, p, st) ==
    IF i > Len(items) \/ st.exc # "none" THEN st
    ELSE LET key == items[i].key
             r   == MergeKey(key, st.d1[key], items[i].val, p)
         IN  Loop(i + 1, items, p,
                  [exc |-> r.exc,
                   nd  |-> [st.nd EXCEPT ![key] = r.val],
                   d1  |-> [st.d1 EXCEPT ![key] = IF r.exc = "none" THEN r.d1v ELSE @],
                   sh  |-> IF r.alias THEN st.sh \cup {key} ELSE st.sh])

\* lines 549-551: every key of d1 not yet in new_data is carried over
CarryOver(nd, dd1) == [k \in Keys |-> IF nd[k] = Absent THEN dd1[k] ELSE nd[k]]

\* lines 438-552
prepare_data_dict(dd1, dd2, p) ==
    LET st == Loop(1, dd2, p, [exc |-> "none", nd |-> Empty, d1 |-> dd1, sh |-> {}])
    IN  [exc |-> st.exc,
         ret |-> IF st.exc = "none" THEN CarryOver(st.nd, st.d1) ELSE Empty,
         d1  |-> st.d1,
         sh  |-> IF st.exc = "none" THEN st.sh ELSE {}]

(***************************************************************************)
(* The merge process: a caller holds d1, d2 and preserve and calls         *)
(* prepare_data_dict(d1, d2, preserve) repeatedly on the same objects.     *)
(***************************************************************************)
\* dicts with at most n keys
Dicts(n) ==
    {f \in [Keys -> Values \cup {Absent}] :
        Cardinality({k \in Keys : f[k] # Absent}) <= n}

\* dicts with at most n keys, in insertion order
ItemSeqs(n) ==
    {s \in UNION {[1..m -> [key : Keys, val : Values]] : m \in 0..n} :
        \A i, j \in 1..Len(s) : i # j => s[i].key # s[j].key}

\* d2 as a mapping: d2[key], Absent when the key is not in d2
Get(items, key) ==
    IF \E i \in 1..Len(items) : items[i].key = key
    THEN (CHOOSE e \in {items[i] : i \in 1..Len(items)} : e.key = key).val
    ELSE Absent

MergeInit ==
    /\ d1 \in Dicts(MaxD1Keys)
    /\ d2 \in ItemSeqs(MaxD2Keys)
    /\ preserve \in BOOLEAN
    /\ new_data = Empty
    /\ shared = {}
    /\ status = "idle"
    /\ d1_before = d1
    /\ first_data = Empty
    /\ calls = 0

\* One call prepare_data_dict(d1, d2, preserve) by the caller
Call ==
    /\ UNCHANGED <<filterVars, toolkitVars, cacheVars, curieVars>>
    /\ calls < MaxCalls
    /\ status \in {"idle", "returned"}
    /\ LET r == prepare_data_dict(d1, d2, preserve)
       IN  /\ d1' = r.d1
           /\ new_data' = r.ret
           /\ shared' = r.sh
           /\ status' = IF r.exc = "none" THEN "returned" ELSE r.exc
           /\ first_data' = IF calls = 0 THEN r.ret ELSE first_data
    /\ d1_before' = d1
    /\ calls' = calls + 1
    /\ UNCHANGED <<d2, preserve>>


(***************************************************************************)
(* Graph filtering: apply_node_filters and apply_edge_filters              *)
(*                                                                         *)
(* A str is a sequence of characters, so that iterating a str and the      *)
(* substring test `x in str` are what Python makes them.  Graph values     *)
(* are [kind |-> "str", s], [kind |-> "list", items], [kind |-> "set",     *)
(* elems]; Missing stands for "no such key".                               *)
(***************************************************************************)
MaxNodes == 2    \* most nodes of the graph
MaxCats  == 2    \* most categories in a node's category list
MaxEdges == 2    \* most edges of the graph

\* The strings the graph and the filters are built from: "a" and "ab"
Strs == {<<"a">>, <<"a", "b">>}

Missing == [kind |-> "missing"]

Str(s) == [kind |-> "str", s |-> s]

StrList(items) == [kind |-> "list", items |-> items]

StrSet(elems) == [kind |-> "set", elems |-> elems]

\* Union[str, Set]: what a filter may map a property to
FilterValues == {StrSet(e) : e \in SUBSET Strs} \cup {Str(s) : s \in Strs \cup {<<>>}}

\* x in s for two str: x occurs in s as a substring
IsSubstr(x, s) ==
    \E i \in 0..(Len(s) - Len(x)) : \A j \in 1..Len(x) : s[i + j] = x[j]

\* `for x in v`: a set yields its elements, a str its characters
Iter(v) ==
    IF v.kind = "set" THEN v.elems
    ELSE {<<v.s[i]>> : i \in 1..Len(v.s)}

\* `x in c` for a str x: membership in a list or a set, substring of a str
In(x, c) ==
    CASE c.kind = "list" -> \E i \in 1..Len(c.items) : c.items[i] = x
      [] c.kind = "set"  -> x \in c.elems
      [] c.kind = "str"  -> IsSubstr(x, c.s)

NodeFilterKeys == {"biolink:category", "biolink:name"}

\* lines 588-592, for one node: "KeyError" when node_data[k] is looked up and
\* the node has no such property (any() evaluates it for the first x of v),
\* else whether pass_filter is still True
NodePasses(data, filters) ==
    LET v == filters["biolink:category"]
    IN  IF v.kind = "missing" THEN "pass"
        ELSE IF Iter(v) = {} THEN "fail"
        ELSE IF data.kind = "missing" THEN "KeyError"
        ELSE IF \E x \in Iter(v) : In(x, data) THEN "pass" ELSE "fail"

\* graph.remove_node(node): the node goes, and with it the edges at it
RemoveNodeFrom(edges, n) == SelectSeq(edges, LAMBDA e : e.s # n /\ e.o # n)

NodeValues ==
    {Missing} \cup {Str(s) : s \in Strs}
    \cup {StrList(l) : l \in UNION {[1..m -> Strs] : m \in 0..MaxCats}}

NoFilters(keys) == [k \in keys |-> Missing]

EdgeFilterKeys == {"biolink:predicate", "biolink:relation", "biolink:subject"}

Edge(s, o, key, pred, rel) ==
    [s |-> s, o |-> o, key |-> key,
     data |-> [k \in {"biolink:predicate", "biolink:relation"} |->
                  IF k = "biolink:predicate" THEN pred ELSE rel]]

FilterIdle ==
    /\ g_nodes = <<>>
    /\ node_data = [n \in 1..MaxNodes |-> Missing]
    /\ g_edges = <<>>
    /\ node_filters = NoFilters(NodeFilterKeys)
    /\ edge_filters = NoFilters(EdgeFilterKeys)
    /\ fpc = "ready"
    /\ todo = <<>>
    /\ to_remove = <<>>
    /\ g_nodes0 = <<>>
    /\ g_edges0 = <<>>

\* A graph of up to MaxNodes nodes, each with or without a category property,
\* an edge between the first two nodes or none, and a node_filters argument.
NodeFilterInit ==
    /\ \E n \in 0..MaxNodes :
          /\ g_nodes = [i \in 1..n |-> i]
          /\ node_data \in [1..MaxNodes -> NodeValues]
          /\ \A i \in 1..MaxNodes : i > n => node_data[i] = Missing
          /\ g_edges \in {<<>>} \cup
                 {<<Edge(1, 2, "k", Str(<<"a">>), Str(<<"a">>))>> : x \in {m \in {n} : m >= 2}}
    /\ node_filters \in
          {f \in [NodeFilterKeys -> FilterValues \cup {Missing}] :
              f["biolink:name"] \in {Missing, Str(<<"a">>)}}
    /\ edge_filters = NoFilters(EdgeFilterKeys)
    /\ fpc = "ready"
    /\ todo = <<>>
    /\ to_remove = <<>>
    /\ g_nodes0 = g_nodes
    /\ g_edges0 = g_edges

\* apply_node_filters is called: lines 586-587
NodeFilterStart ==
    /\ UNCHANGED <<mergeVars, toolkitVars, cacheVars, curieVars>>
    /\ fpc = "ready"
    /\ todo' = g_nodes
    /\ to_remove' = <<>>
    /\ fpc' = IF g_nodes = <<>> THEN "done" ELSE "scan"
    /\ UNCHANGED <<g_nodes, node_data, g_edges, node_filters, edge_filters,
                   g_nodes0, g_edges0>>

\* lines 587-594: one iteration of the loop over graph.nodes(data=True)
NodeFilterScan ==
    /\ UNCHANGED <<mergeVars, toolkitVars, cacheVars, curieVars>>
    /\ fpc = "scan"
    /\ todo # <<>>
    /\ LET node == Head(todo)
           r    == NodePasses(node_data[node], node_filters)
           rem  == IF r = "fail" THEN Append(to_remove, node) ELSE to_remove
       IN  /\ to_remove' = rem
           /\ fpc' = IF r = "KeyError" THEN "KeyError"
                     ELSE IF Tail(todo) # <<>> THEN "scan"
                     ELSE IF rem # <<>> THEN "remove" ELSE "done"
    /\ todo' = Tail(todo)
    /\ UNCHANGED <<g_nodes, node_data, g_edges, node_filters, edge_filters,
                   g_nodes0, g_edges0>>

\* lines 596-599: one iteration of the loop over nodes_to_remove
NodeFilterRemove ==
    /\ UNCHANGED <<mergeVars, toolkitVars, cacheVars, curieVars>>
    /\ fpc = "remove"
    /\ to_remove # <<>>
    /\ LET node == Head(to_remove)
       IN  /\ g_nodes' = SelectSeq(g_nodes, LAMBDA n : n # node)
           /\ g_edges' = RemoveNodeFrom(g_edges, node)
    /\ to_remove' = Tail(to_remove)
    /\ fpc' = IF Tail(to_remove) = <<>> THEN "done" ELSE "remove"
    /\ UNCHANGED <<node_data, node_filters, edge_filters, todo, g_nodes0, g_edges0>>

\* lines 616-623, for one edge: "KeyError" when data[k] is looked up and the
\* edge has no such property, else whether pass_filter is still True
EdgePasses(data, filters) ==
    LET tested == {k \in {"biolink:predicate", "biolink:relation"} :
                      filters[k].kind # "missing"}
    IN  IF \E k \in tested : data[k].kind = "missing" THEN "KeyError"
        ELSE IF \A k \in tested : In(data[k].s, filters[k]) THEN "pass" ELSE "fail"

EdgeValues == {Missing} \cup {Str(s) : s \in Strs}

\* The (subject, object, key) triples of the multigraph's edges: two parallel
\* edges and one in the other direction
EdgeIds == {<<1, 2, "k1">>, <<1, 2, "k2">>, <<2, 1, "k1">>}

EdgeSeqs ==
    {es \in UNION {[1..m -> {Edge(i[1], i[2], i[3], p, r) :
                                i \in EdgeIds, p \in EdgeValues, r \in EdgeValues}] :
                   m \in 0..MaxEdges} :
        \A i, j \in 1..Len(es) :
            i # j => <<es[i].s, es[i].o, es[i].key>> # <<es[j].s, es[j].o, es[j].key>>}

EdgeFilterInit ==
    /\ g_nodes = <<1, 2>>
    /\ node_data = [n \in 1..MaxNodes |-> IF n <= 2 THEN StrList(<<<<"a">>>>) ELSE Missing]
    /\ g_edges \in EdgeSeqs
    /\ node_filters = NoFilters(NodeFilterKeys)
    /\ edge_filters \in
          {f \in [EdgeFilterKeys -> FilterValues \cup {Missing}] :
              f["biolink:subject"] \in {Missing, Str(<<"a">>)}}
    /\ fpc = "ready"
    /\ todo = <<>>
    /\ to_remove = <<>>
    /\ g_nodes0 = g_nodes
    /\ g_edges0 = g_edges

\* apply_edge_filters is called: lines 614-615
EdgeFilterStart ==
    /\ UNCHANGED <<mergeVars, toolkitVars, cacheVars, curieVars>>
    /\ fpc = "ready"
    /\ todo' = g_edges
    /\ to_remove' = <<>>
    /\ fpc' = IF g_edges = <<>> THEN "done" ELSE "scan"
    /\ UNCHANGED <<g_nodes, node_data, g_edges, node_filters, edge_filters,
                   g_nodes0, g_edges0>>

\* lines 615-625: one iteration of the loop over graph.edges(keys=True, data=True)
EdgeFilterScan ==
    /\ UNCHANGED <<mergeVars, toolkitVars, cacheVars, curieVars>>
    /\ fpc = "scan"
    /\ todo # <<>>
    /\ LET e   == Head(todo)
           r   == EdgePasses(e.data, edge_filters)
           rem == IF r = "fail" THEN Append(to_remove, <<e.s, e.o, e.key>>)
                  ELSE to_remove
       IN  /\ to_remove' = rem
           /\ fpc' = IF r = "KeyError" THEN "KeyError"
                     ELSE IF Tail(todo) # <<>> THEN "scan"
                     ELSE IF rem # <<>> THEN "remove" ELSE "done"
    /\ todo' = Tail(todo)
    /\ UNCHANGED <<g_nodes, node_data, g_edges, node_filters, edge_filters,
                   g_nodes0, g_edges0>>

\* lines 627-630: one iteration of the loop over edges_to_remove
EdgeFilterRemove ==
    /\ UNCHANGED <<mergeVars, toolkitVars, cacheVars, curieVars>>
    /\ fpc = "remove"
    /\ to_remove # <<>>
    /\ LET edge == Head(to_remove)
       IN  g_edges' = SelectSeq(g_edges, LAMBDA e : <<e.s, e.o, e.key>> # edge)
    /\ to_remove' = Tail(to_remove)
    /\ fpc' = IF Tail(to_remove) = <<>> THEN "done" ELSE "remove"
    /\ UNCHANGED <<g_nodes, node_data, node_filters, edge_filters, todo,
                   g_nodes0, g_edges0>>

(***************************************************************************)
(* get_toolkit: the lazily constructed bmt.Toolkit                         *)
(***************************************************************************)
MaxToolkitCalls == 4    \* get_toolkit calls in one behaviour

None == "<None>"

\* config['biolink-model']
ConfigSchema == "<config biolink-model>"

\* The schema arguments of a call: none, an empty string, two schemas
Schemas == {None, "", "schema1", "schema2"}

NoToolkit == [id |-> 0, schema |-> None]

\* Toolkit(schema=schema): the n-th instance constructed in the process
Toolkit(schema, n) == [id |-> n, schema |-> schema]

\* get_toolkit without its `if toolkit is None` guard: a new instance every call
get_toolkit_unguarded(tk, schema, n) ==
    [toolkit |-> Toolkit(IF schema \in {None, ""} THEN ConfigSchema ELSE schema, n + 1),
     constructed |-> n + 1]

\* lines 221-232: the global after the call (which is what the call returns)
\* and the number of instances constructed so far
get_toolkit(tk, schema, n) ==
    IF tk = NoToolkit
    THEN [toolkit |-> Toolkit(IF schema \in {None, ""} THEN ConfigSchema ELSE schema,
                              n + 1),
          constructed |-> n + 1]
    ELSE [toolkit |-> tk, constructed |-> n]

ToolkitIdle ==
    /\ toolkit = NoToolkit
    /\ constructed = 0
    /\ tk_log = <<>>

\* One call get_toolkit(schema)
GetToolkit ==
    /\ UNCHANGED <<mergeVars, filterVars, cacheVars, curieVars>>
    /\ Len(tk_log) < MaxToolkitCalls
    /\ \E schema \in Schemas :
          LET r == get_toolkit(toolkit, schema, constructed)
          IN  /\ toolkit' = r.toolkit
              /\ constructed' = r.constructed
              /\ tk_log' = Append(tk_log, [schema |-> schema, ret |-> r.toolkit])

(***************************************************************************)
(* get_cache: the lazily constructed cachetools.LRUCache                   *)
(***************************************************************************)
ReqSize == 3    \* the maxsize of the scenario's get_cache call (the spec's example: 50)

\* get_cache(maxsize=10000)
DefaultMaxsize == 10000

\* The maxsize arguments of a call
SizeArgs == {ReqSize - 1, ReqSize, DefaultMaxsize}

CacheKeys == 1..(ReqSize + 1)

NoCache == [maxsize |-> 0, keys |-> <<>>]

\* LRUCache(maxsize): an empty cache; keys are held least recently used first
LRUCache(maxsize) == [maxsize |-> maxsize, keys |-> <<>>]

Without(keys, k) == SelectSeq(keys, LAMBDA x : x # k)

\* c[k] = value: a new key evicts least recently used entries while the cache
\* is full, and becomes the most recently used
LRUSet(c, k) ==
    IF \E i \in 1..Len(c.keys) : c.keys[i] = k
    THEN [c EXCEPT !.keys = Append(Without(c.keys, k), k)]
    ELSE LET n    == Len(c.keys) + 1 - c.maxsize
             kept == IF n > 0 THEN SubSeq(c.keys, n + 1, Len(c.keys)) ELSE c.keys
         IN  [c EXCEPT !.keys = Append(kept, k)]

\* The keys c[k] = value evicts, in order
LRUEvicted(c, k) ==
    IF \E i \in 1..Len(c.keys) : c.keys[i] = k THEN <<>>
    ELSE LET n == Len(c.keys) + 1 - c.maxsize
         IN  IF n > 0 THEN SubSeq(c.keys, 1, n) ELSE <<>>

\* c[k]: a hit makes k the most recently used
LRUGet(c, k) == [c EXCEPT !.keys = Append(Without(c.keys, k), k)]

\* get_cache without its `if cache is None` guard: a new cache every call
get_cache_always_new(c, maxsize) == LRUCache(maxsize)

\* lines 274-292: the global after the call (which is what the call returns)
get_cache(c, maxsize) == IF c = NoCache THEN LRUCache(maxsize) ELSE c

CacheIdle ==
    /\ cache = NoCache
    /\ first_maxsize = 0
    /\ sc_active = FALSE
    /\ sc_first = FALSE
    /\ sc_inserted = <<>>
    /\ sc_evicted = <<>>

\* One call get_cache(maxsize)
GetCache ==
    /\ UNCHANGED <<mergeVars, filterVars, toolkitVars, curieVars>>
    /\ \E maxsize \in SizeArgs :
          /\ cache' = get_cache(cache, maxsize)
          /\ first_maxsize' = IF first_maxsize = 0 THEN maxsize ELSE first_maxsize
          /\ sc_active' = (maxsize = ReqSize)
          /\ sc_first' = (maxsize = ReqSize /\ first_maxsize = 0)
    /\ sc_inserted' = <<>>
    /\ sc_evicted' = <<>>

\* The holder of the cache stores a key: cache[k] = value
CacheInsert ==
    /\ UNCHANGED <<mergeVars, filterVars, toolkitVars, curieVars>>
    /\ cache # NoCache
    /\ \E k \in CacheKeys :
          /\ cache' = LRUSet(cache, k)
          /\ IF sc_active /\ Len(sc_inserted) <= ReqSize
                /\ \A i \in 1..Len(sc_inserted) : sc_inserted[i] # k
             THEN /\ sc_inserted' = Append(sc_inserted, k)
                  /\ sc_evicted' = sc_evicted \o LRUEvicted(cache, k)
                  /\ UNCHANGED <<sc_active, sc_first>>
             ELSE /\ sc_active' = FALSE
                  /\ sc_first' = FALSE
                  /\ sc_inserted' = <<>>
                  /\ sc_evicted' = <<>>
    /\ UNCHANGED first_maxsize

\* The holder of the cache reads a key it holds: cache[k]
CacheLookup ==
    /\ UNCHANGED <<mergeVars, filterVars, toolkitVars, curieVars>>
    /\ cache # NoCache
    /\ \E i \in 1..Len(cache.keys) : cache' = LRUGet(cache, cache.keys[i])
    /\ sc_active' = FALSE
    /\ sc_first' = FALSE
    /\ sc_inserted' = <<>>
    /\ sc_evicted' = <<>>
    /\ UNCHANGED first_maxsize

(***************************************************************************)
(* contract / expand                                                       *)
(*                                                                         *)
(* Strings are sequences of characters.  A dict is the sequence of its     *)
(* [k, v] items in insertion order; a prefix map sends a prefix to the     *)
(* namespace it abbreviates.                                               *)
(***************************************************************************)
Item(k, v) == [k |-> k, v |-> v]

\* get_jsonld_context('monarch_context'), get_jsonld_context('obo_context'):
\* the two built-in contexts, which share one namespace
monarch_context == <<Item(<<"m">>, <<"M", "/">>), Item(<<"s">>, <<"S", "/">>)>>

obo_context == <<Item(<<"o">>, <<"O", "/">>), Item(<<"s">>, <<"S", "/">>)>>

\* lines 170, 210
default_curie_maps == <<monarch_context, obo_context>>

\* prefix_maps=None, and prefix_maps a list of dicts
NoMaps == [kind |-> "None"]

MapList(l) == [kind |-> "list", items |-> l]

\* The prefix_maps a caller passes: none, an empty list, a list holding an
\* empty dict, a map for a namespace the defaults do not know, a map with its
\* own prefix for a namespace the defaults know, a map with three prefixes for
\* one namespace, and a list of two maps.
PrefixMapArgs ==
    LET dictA   == <<Item(<<"a">>, <<"A", "/">>)>>
        dictM   == <<Item(<<"n">>, <<"M", "/">>)>>
        dictACB == <<Item(<<"a">>, <<"A", "/">>), Item(<<"c">>, <<"A", "/">>),
                     Item(<<"b", "b">>, <<"A", "/">>)>>
    IN  {NoMaps} \cup {MapList(l) : l \in {<<>>, << <<>> >>, <<dictA>>, <<dictM>>,
                                            <<dictACB>>, <<dictA, dictM>>}}

\* The uri / curie arguments: a URI in each namespace and in none, a CURIE
\* with each prefix and with none, and a string without a colon.
CurieArgs ==
    {<<ns, "/", "1">> : ns \in {"A", "M", "O", "S", "Z"}}
    \cup {<<p, ":", "1">> : p \in {"a", "n", "m", "o", "z"}}
    \cup {<<"1">>}

\* `if prefix_maps:` (lines 171, 211): None and the empty list are both false
Truthy(prefix_maps) == prefix_maps.kind = "list" /\ prefix_maps.items # <<>>

\* s.startswith(p)
StartsWith(s, p) == Len(p) <= Len(s) /\ \A i \in 1..Len(p) : s[i] = p[i]

\* s.replace(old, new), for a non-empty old
RECURSIVE Replace(_, _, _)
Replace(s, old, new) ==
    IF Len(s) < Len(old) THEN s
    ELSE IF StartsWith(s, old)
         THEN new \o Replace(SubSeq(s, Len(old) + 1, Len(s)), old, new)
         ELSE <<Head(s)>> \o Replace(Tail(s), old, new)

\* prefixcommons contract_uri, first half: the set `curies` of the
\* contractions of uri by every item of every map whose namespace starts it
Candidates(uri, cmaps) ==
    LET items == UNION {{cmaps[i][j] : j \in 1..Len(cmaps[i])} : i \in 1..Len(cmaps)}
    IN  {Replace(uri, it.v, it.k \o <<":">>) : it \in {it \in items : StartsWith(uri, it.v)}}

\* prefixcommons contract_uri, second half (shortest=True): of several
\* candidates only the shortest are kept
Shortest(curies) ==
    IF Cardinality(curies) > 1
    THEN {c \in curies : \A e \in curies : Len(c) <= Len(e)}
    ELSE curies

\* contract_uri(uri, cmaps): list(curies) puts the set in an order the caller
\* cannot foresee, so this is the set of the lists the call may return
contract_uri(uri, cmaps) ==
    LET curies == Shortest(Candidates(uri, cmaps))
        n      == Cardinality(curies)
    IN  {q \in [1..n -> curies] : \A i, j \in 1..n : i # j => q[i] # q[j]}

\* s.find(":"): the index of the first colon, 0 if there is none
FindColon(s) ==
    IF \E i \in 1..Len(s) : s[i] = ":"
    THEN CHOOSE i \in 1..Len(s) : s[i] = ":" /\ \A j \in 1..(i - 1) : s[j] # ":"
    ELSE 0

\* cmap[pfx] for pfx in cmap, <<>> standing for "pfx not in cmap"
Lookup(cmap, pfx) ==
    IF \E j \in 1..Len(cmap) : cmap[j].k = pfx
    THEN {cmap[j].v : j \in {j \in 1..Len(cmap) : cmap[j].k = pfx}}
    ELSE {}

\* prefixcommons expand_uri(id, cmaps): the namespace of the first map that
\* has the prefix, followed by the local id; id itself if there is no colon
\* or no map has the prefix
expand_uri(id, cmaps) ==
    LET c       == FindColon(id)
        pfx     == SubSeq(id, 1, c - 1)
        localid == SubSeq(id, c + 1, Len(id))
        hits    == {i \in 1..Len(cmaps) : Lookup(cmaps[i], pfx) # {}}
    IN  IF c = 0 \/ hits = {} THEN id
        ELSE LET i == CHOOSE i \in hits : \A h \in hits : i <= h
             IN  (CHOOSE ns \in Lookup(cmaps[i], pfx) : TRUE) \o localid

\* What a call returns (ret) and whether it resolved against the default maps
Resolved(ret, dflt) == [ret |-> ret, dflt |-> dflt]

\* curie_list[0] if the list has an element, else uri (lines 169, 176-177, 182-183)
FirstOr(curie_list, uri) == IF Len(curie_list) > 0 THEN curie_list[1] ELSE uri

\* lines 146-185; the set of the results the call may have
contract(uri, prefix_maps, fallback) ==
    LET defaults == {Resolved(FirstOr(dl, uri), TRUE) :
                        dl \in contract_uri(uri, default_curie_maps)}
    IN  IF Truthy(prefix_maps)
        THEN UNION {IF Len(curie_list) = 0
                    THEN IF fallback THEN defaults ELSE {Resolved(uri, FALSE)}
                    ELSE {Resolved(curie_list[1], FALSE)} :
                        curie_list \in contract_uri(uri, prefix_maps.items)}
        ELSE defaults

\* lines 188-218
expand(curie, prefix_maps, fallback) ==
    IF Truthy(prefix_maps)
    THEN LET uri == expand_uri(curie, prefix_maps.items)
         IN  IF uri = curie /\ fallback
             THEN Resolved(expand_uri(curie, default_curie_maps), TRUE)
             ELSE Resolved(uri, FALSE)
    ELSE Resolved(expand_uri(curie, default_curie_maps), TRUE)

CurieIdle ==
    /\ cu_pc = "idle"
    /\ cu_arg = <<>>
    /\ cu_maps = NoMaps
    /\ cu_fallback = TRUE
    /\ cu_ret = <<>>
    /\ cu_default = FALSE
    /\ ic_pc = "idle"
    /\ ic_s = <<>>
    /\ ic_ret = FALSE

\* the arguments of one call of contract or expand
CurieInit ==
    /\ cu_pc = "ready"
    /\ cu_arg \in CurieArgs
    /\ cu_maps \in PrefixMapArgs
    /\ cu_fallback \in BOOLEAN
    /\ cu_ret = <<>>
    /\ cu_default = FALSE
    /\ ic_pc = "idle"
    /\ ic_s = <<>>
    /\ ic_ret = FALSE

\* contract(cu_arg, cu_maps, cu_fallback)
Contract ==
    /\ UNCHANGED <<mergeVars, filterVars, toolkitVars, cacheVars>>
    /\ cu_pc = "ready"
    /\ \E r \in contract(cu_arg, cu_maps, cu_fallback) :
           /\ cu_ret' = r.ret
           /\ cu_default' = r.dflt
    /\ cu_pc' = "contract"
    /\ UNCHANGED <<cu_arg, cu_maps, cu_fallback, ic_pc, ic_s, ic_ret>>

\* expand(cu_arg, cu_maps, cu_fallback)
Expand ==
    /\ UNCHANGED <<mergeVars, filterVars, toolkitVars, cacheVars>>
    /\ cu_pc = "ready"
    /\ LET r == expand(cu_arg, cu_maps, cu_fallback)
       IN  /\ cu_ret' = r.ret
           /\ cu_default' = r.dflt
    /\ cu_pc' = "expand"
    /\ UNCHANGED <<cu_arg, cu_maps, cu_fallback, ic_pc, ic_s, ic_ret>>

(***************************************************************************)
(* is_curie                                                                *)
(***************************************************************************)
MaxStrLen == 3    \* longest string given to is_curie

\* The characters the arguments are made of: a letter, the colon, and the
\* characters the pattern of line 677 names
CurieChars == {"a", ":", "/", "(", ")", " ", "<", ">"}

\* The arguments: every string up to MaxStrLen, and two values that are not
\* strings (None and an int)
IsCurieArgs ==
    {Str(s) : s \in UNION {[1..n -> CurieChars] : n \in 0..MaxStrLen}}
    \cup {[kind |-> "None"], [kind |-> "int"]}

\* the index after the longest run of characters not in `excluded` that
\* starts at index i: how a greedy [^...]* consumes s
RECURSIVE Span(_, _, _)
Span(s, i, excluded) ==
    IF i <= Len(s) /\ s[i] \notin excluded THEN Span(s, i + 1, excluded) ELSE i

\* re.match(r"^[^pre]*:[^loc]+$", s): the run before the colon cannot be cut
\* short (the next character would not be the colon), so the match is settled
\* by one greedy scan: the first run, the colon, a non-empty second run that
\* ends where s ends
Match(s, pre, loc) ==
    LET c == Span(s, 1, pre)
    IN  /\ c <= Len(s)
        /\ s[c] = ":"
        /\ Span(s, c + 1, loc) > c + 1
        /\ Span(s, c + 1, loc) = Len(s) + 1

\* is_curie with the pattern as the documentation words it: ^[^ <>:]*:[^ :]+$
is_curie_documented(s) ==
    IF s.kind = "str" THEN Match(s.s, {" ", "<", ">", ":"}, {" ", ":"}) ELSE FALSE

\* lines 661-680: re.match(r"^[^ <()>:]*:[^/ :]+$", s) for a str, else False
is_curie(s) ==
    IF s.kind = "str"
    THEN Match(s.s, {" ", "<", "(", ")", ">", ":"}, {"/", " ", ":"})
    ELSE FALSE

\* the argument of one call of is_curie
IsCurieInit ==
    /\ ic_pc = "ready"
    /\ ic_s \in IsCurieArgs
    /\ ic_ret = FALSE
    /\ cu_pc = "idle"
    /\ cu_arg = <<>>
    /\ cu_maps = NoMaps
    /\ cu_fallback = TRUE
    /\ cu_ret = <<>>
    /\ cu_default = FALSE

\* is_curie(ic_s)
IsCurie ==
    /\ UNCHANGED <<mergeVars, filterVars, toolkitVars, cacheVars>>
    /\ ic_pc = "ready"
    /\ ic_ret' = is_curie(ic_s)
    /\ ic_pc' = "done"
    /\ UNCHANGED <<ic_s, cu_pc, cu_arg, cu_maps, cu_fallback, cu_ret, cu_default>>

(***************************************************************************)
(* Specifications                                                          *)
(***************************************************************************)
vars == <<mergeVars, filterVars, toolkitVars, cacheVars, curieVars>>

MergeIdle ==
    /\ d1 = Empty
    /\ d2 = <<>>
    /\ preserve = TRUE
    /\ new_data = Empty
    /\ shared = {}
    /\ status = "idle"
    /\ d1_before = Empty
    /\ first_data = Empty
    /\ calls = 0

MergeNext == Call

MergeSpecInit == MergeInit /\ FilterIdle /\ ToolkitIdle /\ CacheIdle /\ CurieIdle

SpecMerge == MergeSpecInit /\ [][MergeNext]_vars

NodeFilterNext ==
    \/ NodeFilterStart
    \/ NodeFilterScan
    \/ NodeFilterRemove

NodeFilterSpecInit == NodeFilterInit /\ MergeIdle /\ ToolkitIdle /\ CacheIdle /\ CurieIdle

SpecNodeFilter == NodeFilterSpecInit /\ [][NodeFilterNext]_vars

EdgeFilterNext ==
    \/ EdgeFilterStart
    \/ EdgeFilterScan
    \/ EdgeFilterRemove

EdgeFilterSpecInit == EdgeFilterInit /\ MergeIdle /\ ToolkitIdle /\ CacheIdle /\ CurieIdle

SpecEdgeFilter == EdgeFilterSpecInit /\ [][EdgeFilterNext]_vars

ToolkitNext == GetToolkit

SingletonInit == MergeIdle /\ FilterIdle /\ ToolkitIdle /\ CacheIdle /\ CurieIdle

SpecToolkit == SingletonInit /\ [][ToolkitNext]_vars

CacheNext ==
    \/ GetCache
    \/ CacheInsert
    \/ CacheLookup

SpecCache == SingletonInit /\ [][CacheNext]_vars

CurieNext ==
    \/ Contract
    \/ Expand

CurieSpecInit == MergeIdle /\ FilterIdle /\ ToolkitIdle /\ CacheIdle /\ CurieInit

SpecCurie == CurieSpecInit /\ [][CurieNext]_vars

IsCurieNext == IsCurie

IsCurieSpecInit == MergeIdle /\ FilterIdle /\ ToolkitIdle /\ CacheIdle /\ IsCurieInit

SpecIsCurie == IsCurieSpecInit /\ [][IsCurieNext]_vars

(***************************************************************************)
(* Claims about prepare_data_dict (checked under SpecMerge)                *)
(***************************************************************************)
\* The values a record holds for a key, as a sequence (a scalar: one value)
ValuesOf(v) == IF v = Absent THEN <<>> ELSE v.items

\* acc followed by the elements of s not already present, in s's order
RECURSIVE OrderedUnion(_, _)
OrderedUnion(acc, s) ==
    IF s = <<>> THEN acc
    ELSE OrderedUnion(IF \E i \in 1..Len(acc) : acc[i] = Head(s)
                      THEN acc ELSE Append(acc, Head(s)),
                      Tail(s))

\* The identity properties claim C1 names
CoreIdentity ==
    {"biolink:id", "biolink:subject", "biolink:predicate", "biolink:object",
     "biolink:relation"}

\* C1: prepare_data_dict never changes a core identity property: for every key
\* of CoreIdentity present in d1 (here holding a scalar or a list), the call
\* returns and the returned record maps the key to exactly the value d1 held
\* before the call.
C1_CoreIdentityKept ==
    calls > 0 =>
        \A k \in Keys \cap CoreIdentity :
            d1_before[k].kind \in {"scalar", "list"} =>
                status = "returned" /\ new_data[k] = d1_before[k]

\* C2: for a declared-multivalued key occurring in d2 the returned value is a
\* list without duplicates: d1's values in order, then the values of d2 not
\* already present, in d2's order.  Stated for d1 holding nothing, a scalar or
\* a list without repeats for the key, on the first call.
C2_MultivaluedUnion ==
    calls = 1 =>
        \A k \in Keys :
            (/\ k \in DOMAIN is_property_multivalued
             /\ is_property_multivalued[k]
             /\ Get(d2, k) # Absent
             /\ d1_before[k].kind \in {"absent", "scalar", "list"}
             /\ NoDup(d1_before[k].items))
            => /\ status = "returned"
               /\ new_data[k].kind = "list"
               /\ NoDup(new_data[k].items)
               /\ new_data[k].items =
                      OrderedUnion(ValuesOf(d1_before[k]), ValuesOf(Get(d2, k)))

\* C3: prepare_data_dict leaves its inputs unmodified: after any call d1 holds
\* what it held before the call, and the returned record shares with d1 no
\* list that the call extended.  (No step of the model writes d2.)
C3_InputsUnmodified ==
    calls > 0 =>
        /\ d1 = d1_before
        /\ \A k \in shared : d1[k] = d1_before[k]

\* C4: calling prepare_data_dict(d1, d2, preserve) again with the same d1, d2
\* and preserve returns a record equal to the one the first call returned.
C4_RepeatedCallsAgree ==
    (calls >= 2 /\ status = "returned") => new_data = first_data

\* C5: for a declared-single-valued key that is no core property, present in
\* d1 and d2: with preserve = FALSE the incoming value is returned; with
\* preserve = TRUE the result is a list of d1's old value(s) followed by the
\* incoming value(s), an incoming value appended only if it is new.  Stated
\* for d1 holding a scalar for the key, on the first call.
C5_SingleValued ==
    calls = 1 =>
        \A k \in Keys :
            (/\ k \in DOMAIN is_property_multivalued
             /\ ~is_property_multivalued[k]
             /\ ~IsCore(k)
             /\ d1_before[k].kind = "scalar"
             /\ Get(d2, k) # Absent)
            => /\ status = "returned"
               /\ ~preserve => new_data[k] = NewValue(Get(d2, k))
               /\ preserve =>
                      new_data[k] =
                          ListOf(OrderedUnion(ValuesOf(d1_before[k]),
                                              ValuesOf(Get(d2, k))))

\* C6: a key absent from is_property_multivalued and present in d1 and d2
\* receives what a declared-multivalued key receives for the same two values
\* (with preserve = FALSE and a scalar in d1 the incoming value replaces).
\* Stated for d1 holding a scalar or a list for the key, on the first call.
C6_UnknownAsMultivalued ==
    calls = 1 =>
        \A k \in Keys :
            (/\ k \notin DOMAIN is_property_multivalued
             /\ d1_before[k].kind \in {"scalar", "list"}
             /\ Get(d2, k) # Absent)
            => /\ status = "returned"
               /\ new_data[k] =
                      IF ~preserve /\ d1_before[k].kind = "scalar"
                      THEN NewValue(Get(d2, k))
                      ELSE MergeMultivalued("biolink:category", d1_before[k],
                                            NewValue(Get(d2, k))).val

(***************************************************************************)
(* Claims about graph filtering                                            *)
(***************************************************************************)
SeqToSet(q) == {q[i] : i \in 1..Len(q)}

\* The categories a node is tagged with
NodeCategories(data) ==
    CASE data.kind = "list" -> SeqToSet(data.items)
      [] data.kind = "str"  -> {data.s}
      [] OTHER              -> {}

\* The values a filter allows: the members of a set, or the one string
Allowed(v) == IF v.kind = "set" THEN v.elems ELSE {v.s}

\* C7: apply_node_filters with a 'biolink:category' filter (a set of
\* categories or a single category string) completes for every node and
\* leaves exactly the nodes with at least one category in the allowed set;
\* without that filter key nothing is removed.  Stated for graphs whose nodes
\* all carry a list of categories.
C7_NodeFilterExact ==
    (\A i \in 1..Len(g_nodes0) : node_data[g_nodes0[i]].kind = "list")
    => /\ fpc # "KeyError"
       /\ fpc = "done" =>
             g_nodes =
                 IF node_filters["biolink:category"].kind = "missing"
                 THEN g_nodes0
                 ELSE SelectSeq(g_nodes0,
                                LAMBDA n : NodeCategories(node_data[n])
                                           \cap Allowed(node_filters["biolink:category"]) # {})

\* Whether the claim keeps edge e: for each of 'biolink:predicate' and
\* 'biolink:relation' present in the filters, the edge's value is a member of
\* the allowed set, or equals the allowed string
EdgeAllowed(e, filters) ==
    \A k \in {"biolink:predicate", "biolink:relation"} :
        filters[k].kind # "missing" => e.data[k].s \in Allowed(filters[k])

\* C8: apply_edge_filters removes exactly the edges that fail a filter, removes
\* no node, changes no surviving edge, and starts removing only after every
\* edge has been examined.  Stated for graphs whose edges all carry a predicate
\* and a relation.
C8_EdgeFilterExact ==
    (\A i \in 1..Len(g_edges0) :
        \A k \in {"biolink:predicate", "biolink:relation"} :
            g_edges0[i].data[k].kind = "str")
    => /\ fpc # "KeyError"
       /\ g_edges # g_edges0 => todo = <<>>
       /\ fpc = "done" =>
             /\ g_edges = SelectSeq(g_edges0, LAMBDA e : EdgeAllowed(e, edge_filters))
             /\ g_nodes = g_nodes0

(***************************************************************************)
(* Claims about the singletons                                             *)
(***************************************************************************)
\* C9: get_toolkit is a process-wide singleton: in any sequence of calls the
\* Toolkit is constructed at most once, on the first call, with that call's
\* schema or the configured one when none (None or an empty string) is given;
\* every call returns that instance, whatever schema it is given.
C9_ToolkitSingleton ==
    /\ constructed <= 1
    /\ tk_log # <<>> =>
          /\ constructed = 1
          /\ tk_log[1].ret.id = 1
          /\ tk_log[1].ret.schema =
                 IF tk_log[1].schema \in {None, ""} THEN ConfigSchema
                 ELSE tk_log[1].schema
          /\ \A i \in 1..Len(tk_log) : tk_log[i].ret = tk_log[1].ret
          /\ toolkit = tk_log[1].ret

\* A first call with one schema, then a call with another one
C9_Witness ==
    /\ Len(tk_log) >= 2
    /\ tk_log[1].schema = "schema1"
    /\ tk_log[2].schema = "schema2"

\* C10 as claimed: after any earlier get_cache calls, get_cache(ReqSize)
\* followed by the insertion of ReqSize + 1 distinct keys evicts exactly one
\* entry and leaves ReqSize entries in the cache.
C10_EvictsExactlyOne ==
    (sc_active /\ Len(sc_inserted) = ReqSize + 1)
    => /\ Len(sc_evicted) = 1
       /\ Len(cache.keys) = ReqSize

\* C10 as amended: when get_cache(ReqSize) is the first get_cache call of the
\* process, the insertion of ReqSize + 1 distinct keys evicts exactly one
\* entry, the least recently used one (the first key inserted), and leaves
\* ReqSize entries; at all times the capacity is the maxsize of the first
\* call, whatever later calls pass, and the cache never holds more entries.
C10_FirstCallFixesCapacity ==
    /\ cache # NoCache =>
          /\ cache.maxsize = first_maxsize
          /\ Len(cache.keys) <= cache.maxsize
    /\ (sc_active /\ sc_first /\ Len(sc_inserted) = ReqSize + 1)
       => /\ sc_evicted = <<sc_inserted[1]>>
          /\ Len(cache.keys) = ReqSize

\* The first call was get_cache(ReqSize) and ReqSize + 1 distinct keys followed
C10_Witness ==
    /\ sc_active
    /\ sc_first
    /\ Len(sc_inserted) = ReqSize + 1


\* What the maps `cmaps` resolve the argument of the last call to: the CURIEs
\* contract_uri may list first, or the expansion if there is one
Matches(cmaps) ==
    IF cu_pc = "contract" THEN Shortest(Candidates(cu_arg, cmaps))
    ELSE {expand_uri(cu_arg, cmaps)} \ {cu_arg}

\* C11: contract and expand resolve in a fixed order.  For a caller who passed
\* prefix_maps (an empty list included): if these yield a match, a first match
\* of theirs is returned and the default maps are not used; if they yield none
\* and fallback is true, a first match of the default maps is returned; with
\* fallback false the default maps are never used.  Whenever nothing matches
\* in the maps used, the argument is returned unchanged.
C11_FixedOrder ==
    cu_pc \in {"contract", "expand"} =>
        LET passed == cu_maps.kind = "list"
            user   == IF passed THEN Matches(cu_maps.items) ELSE {}
            dflt   == Matches(default_curie_maps)
        IN  /\ (passed /\ user # {}) => (cu_ret \in user /\ ~cu_default)
            /\ (passed /\ user = {} /\ cu_fallback /\ dflt # {}) => cu_ret \in dflt
            /\ (passed /\ ~cu_fallback) => ~cu_default
            /\ (passed /\ user = {} /\ ~cu_fallback) => cu_ret = cu_arg
            /\ (user = {} /\ dflt = {}) => cu_ret = cu_arg


\* s has the shape: a possibly empty run of characters not in `pre`, exactly
\* one colon, a non-empty run of characters not in `loc`
Shape(s, pre, loc) ==
    /\ Cardinality({i \in 1..Len(s) : s[i] = ":"}) = 1
    /\ LET c == CHOOSE i \in 1..Len(s) : s[i] = ":"
       IN  /\ \A i \in 1..(c - 1) : s[i] \notin pre
           /\ c < Len(s)
           /\ \A i \in (c + 1)..Len(s) : s[i] \notin loc

\* C12 as stated: is_curie(s) is true iff s is a string of the documented
\* shape: a possibly empty run of characters that are not space, angle bracket
\* or colon, one colon, a non-empty run of characters that are not space or
\* colon.
C12_DocumentedShape ==
    ic_pc = "done" =>
        (ic_ret <=> (ic_s.kind = "str" /\ Shape(ic_s.s, {" ", "<", ">"}, {" "})))

\* C12 as amended: is_curie(s) is true iff s is a string made of a possibly
\* empty run of characters that are not space, angle bracket, parenthesis or
\* colon, one colon, and a non-empty run of characters that are not space,
\* slash or colon; a value that is no string, and a string with no colon or
\* more than one, is rejected.
C12_PatternShape ==
    ic_pc = "done" =>
        /\ ic_ret <=> (/\ ic_s.kind = "str"
                       /\ Shape(ic_s.s, {" ", "<", ">", "(", ")"}, {" ", "/"}))
        /\ ic_s.kind # "str" => ~ic_ret
        /\ (ic_s.kind = "str" /\ Cardinality({i \in 1..Len(ic_s.s) : ic_s.s[i] = ":"}) # 1)
               => ~ic_ret

\* is_curie has turned down a string of the documented shape that has a
\* slash after its colon
C12_Witness ==
    /\ ic_pc = "done"
    /\ ic_s.kind = "str"
    /\ Shape(ic_s.s, {" ", "<", ">"}, {" "})
    /\ \E i \in 1..Len(ic_s.s) : ic_s.s[i] = "/" /\ \E j \in 1..(i - 1) : ic_s.s[j] = ":"
    /\ ~ic_ret

====
